---- MODULE Spec2Model ----
(***************************************************************************)
(* Model of the e-logbook Django application (src/elog): the relational    *)
(* store (Logbook, Log, LogImage, Comment), the access helpers and the     *)
(* request handlers of views.py, and the Logbook pages of the admin site.  *)
(* Every handler is one action; the variable `last` holds the request that *)
(* was served last and the response it got.                                *)
(***************************************************************************)
EXTENDS Integers, Sequences, FiniteSets, TLC

VARIABLES
    logbooks,       \* Logbook table: id -> [owner, access_level, allowed_groups]
    logs,           \* Log table: id -> [logbook, user, content, created_at]
    images,         \* LogImage table: id -> [log, width]
    comments,       \* Comment table: id -> [log, user, content]
    next_id,        \* the tables' auto-increment counters
    now,            \* timezone.now(), in ticks
    last            \* the last request and its response

vars == <<logbooks, logs, images, comments, next_id, now, last>>
db == <<logbooks, logs, images, comments, next_id>>

----------------------------------------------------------------------------
(* Bounds of the model *)

TicksPerDay == 2

(* Program constants *)

DEFAULT_WIDTH == 400

----------------------------------------------------------------------------
(* Users and groups (django.contrib.auth) *)

Users == {"u1", "u2", "u3"}
Groups == {"g1", "g2"}

\* user.groups.all()
user_groups(user) ==
    CASE user = "u1" -> {"g1"}
      [] user = "u2" -> {"g1", "g2"}
      [] OTHER -> {}

ACCESS_CHOICES == {"private", "shared", "public"}

\* The columns and relations of the Logbook model.
LogbookFields ==
    {"id", "name", "description", "owner", "allowed_groups", "access_level",
     "allowed_users", "created_at", "updated_at"}

Ok(v) == [exc |-> "none", val |-> v]
Raise(e) == [exc |-> e, val |-> 0]

----------------------------------------------------------------------------
(* Dates: a date is a day ordinal, 1 = 2024-01-01; a date string is a      *)
(* record, kind "ymd" for text of the shape Y-M-D.                         *)

Date(ts) == ts \div TicksPerDay

DaysInMonth(y, m) ==
    CASE m \in {1, 3, 5, 7, 8, 10, 12} -> 31
      [] m \in {4, 6, 9, 11} -> 30
      [] m = 2 -> IF y % 4 = 0 THEN 29 ELSE 28
      [] OTHER -> 0

\* datetime.date(y, m, d) for the two months around the epoch
ToOrdinal(y, m, d) ==
    CASE y = 2023 /\ m = 12 -> d - 31
      [] y = 2024 /\ m = 1 -> d
      [] y = 2024 /\ m = 2 -> 31 + d

ValidYmd(s) ==
    /\ s.kind = "ymd"
    /\ s.m \in 1..12
    /\ s.d \in 1..DaysInMonth(s.y, s.m)

\* datetime.strptime(date_str, '%Y-%m-%d').date()
strptime(s) == IF ValidYmd(s) THEN Ok(ToOrdinal(s.y, s.m, s.d)) ELSE Raise("ValueError")

\* django.utils.dateparse.parse_date: None (the empty set) for text of another
\* shape, ValueError for a well-formed text that is no calendar date
parse_date(s) ==
    IF s.kind # "ymd" THEN Ok({})
    ELSE IF ValidYmd(s) THEN Ok({ToOrdinal(s.y, s.m, s.d)})
    ELSE Raise("ValueError")

\* date.strftime('%Y-%m-%d')
strftime(o) ==
    IF o <= 0 THEN [kind |-> "ymd", y |-> 2023, m |-> 12, d |-> 31 + o]
    ELSE IF o <= 31 THEN [kind |-> "ymd", y |-> 2024, m |-> 1, d |-> o]
    ELSE [kind |-> "ymd", y |-> 2024, m |-> 2, d |-> o - 31]

Absent == [kind |-> "absent", y |-> 0, m |-> 0, d |-> 0]
EmptyStr == [kind |-> "empty", y |-> 0, m |-> 0, d |-> 0]
Garbage == [kind |-> "garbage", y |-> 0, m |-> 0, d |-> 0]
NoSuchDay == [kind |-> "ymd", y |-> 2024, m |-> 2, d |-> 30]

----------------------------------------------------------------------------
(* Text: a text is a sequence of characters *)

Contents == {<<"x">>, <<"X", "y">>}

username(user) ==
    CASE user = "u1" -> <<"u", "1">>
      [] user = "u2" -> <<"u", "2">>
      [] OTHER -> <<"u", "3">>

lower(c) == IF c = "X" THEN "x" ELSE c

\* the ORM's __icontains
icontains(hay, needle) ==
    \E i \in 0..(Len(hay) - Len(needle)) :
        \A j \in 1..Len(needle) : lower(hay[i + j]) = lower(needle[j])

\* int(width_val)
int_(s) == IF s = "200" THEN Ok(200) ELSE Raise("ValueError")

----------------------------------------------------------------------------
(* The ORM *)

created_at(e) == logs[e].created_at

\* order_by('created_at') and, with desc, order_by('-created_at'): the orders in
\* which the store may return the entries S, entries of equal time in any order.
OrderBy(S, desc) ==
    {s \in [1..Cardinality(S) -> S] :
        /\ \A i, j \in 1..Cardinality(S) : i # j => s[i] # s[j]
        /\ \A i, j \in 1..Cardinality(S) :
              i < j => IF desc THEN created_at(s[i]) >= created_at(s[j])
                       ELSE created_at(s[i]) <= created_at(s[j])}

\* Removing rows from a table
Without(table, ids) == [x \in (DOMAIN table) \ ids |-> table[x]]
With(table, id, row) == [x \in (DOMAIN table) \cup {id} |-> IF x = id THEN row ELSE table[x]]

\* LogImage.log without on_delete=models.CASCADE
ImagesOf_no_cascade(es) == {}

\* on_delete=models.CASCADE from LogImage.log and Comment.log to Log
ImagesOf(es) == {i \in DOMAIN images : images[i].log \in es}
CommentsOf(es) == {c \in DOMAIN comments : comments[c].log \in es}
\* on_delete=models.CASCADE from Log.logbook to Logbook
EntriesOf(ls) == {e \in DOMAIN logs : logs[e].logbook \in ls}

\* get_object_or_404 on a queryset
get_object_or_404(qs) ==
    IF qs = {} THEN Raise("Http404")
    ELSE IF Cardinality(qs) = 1 THEN Ok(CHOOSE x \in qs : TRUE)
    ELSE Raise("MultipleObjectsReturned")

----------------------------------------------------------------------------
(* Helpers for access control *)

\* Logbook joined with its allowed_groups (LEFT OUTER JOIN): one row for each
\* group of a logbook, and one row with no group for a logbook that has none.
LogbookGroupRows ==
    {r \in (DOMAIN logbooks) \X (Groups \cup {"NULL"}) :
        IF logbooks[r[1]].allowed_groups = {} THEN r[2] = "NULL"
        ELSE r[2] \in logbooks[r[1]].allowed_groups}

\* get_visible_logbook without the test of the access level beside the groups
get_visible_logbook_any_level(logbook_id, user) ==
    LET rows == {r \in LogbookGroupRows :
                    /\ r[1] = logbook_id
                    /\ \/ logbooks[r[1]].owner = user
                       \/ logbooks[r[1]].access_level = "public"
                       \/ r[2] \in user_groups(user)}
        qs == {r[1] : r \in rows}
    IN  get_object_or_404(qs)

get_visible_logbook(logbook_id, user) ==
    LET rows == {r \in LogbookGroupRows :
                    /\ r[1] = logbook_id
                    /\ \/ logbooks[r[1]].owner = user
                       \/ logbooks[r[1]].access_level = "public"
                       \/ /\ logbooks[r[1]].access_level = "shared"
                          /\ r[2] \in user_groups(user)}
        qs == {r[1] : r \in rows}      \* .distinct()
    IN  get_object_or_404(qs)

\* The result is TRUE, FALSE, or the exception raised by reading an attribute
\* the Logbook model does not have.
has_write_permission(logbook, user) ==
    IF logbooks[logbook].owner = user THEN Ok(TRUE)
    ELSE IF "property_type" \notin LogbookFields THEN Raise("AttributeError")
    ELSE IF logbooks[logbook].property_type = "SHARED" THEN Ok(TRUE)
    ELSE Ok(FALSE)

check_logbook_access(user, logbook) ==
    IF logbooks[logbook].owner = user \/ logbooks[logbook].access_level = "public"
    THEN TRUE
    ELSE IF logbooks[logbook].access_level = "shared"
         THEN (user_groups(user) \cap logbooks[logbook].allowed_groups) # {}
         ELSE FALSE

\* The permission check that compares the author with the logbook's owner
\* instead of the requester
permission_denied_author_is_owner(log_id, logbook, user) ==
    logs[log_id].user # logbooks[logbook].owner /\ logbooks[logbook].owner # user

\* log.user != request.user and logbook.owner != request.user
permission_denied(log_id, logbook, user) ==
    logs[log_id].user # user /\ logbooks[logbook].owner # user

\* The entry looked up by its identifier alone, in whatever logbook it is
get_log_or_404_of_any_logbook(log_id, logbook) ==
    get_object_or_404({e \in DOMAIN logs : e = log_id})

\* get_object_or_404(Log, id=log_id, logbook=logbook)
get_log_or_404(log_id, logbook) ==
    get_object_or_404({e \in DOMAIN logs : e = log_id /\ logs[e].logbook = logbook})

----------------------------------------------------------------------------
(* Requests and responses *)

Idle ==
    [handler |-> "none", user |-> "none", logbook_id |-> 0, log_id |-> 0,
     method |-> "none", status |-> 0, exc |-> "none",
     date_str |-> Absent, search |-> <<>>, widths |-> <<>>, delete_ids |-> {},
     logs |-> <<>>, current_date |-> {}, today_date |-> {},
     prev_date |-> {}, next_date |-> {}]

\* A response without a listing: the status and, for 404 and 500, the exception.
Response(handler, user, logbook_id, log_id, method, status, exc) ==
    [Idle EXCEPT !.handler = handler, !.user = user, !.logbook_id = logbook_id,
                 !.log_id = log_id, !.method = method, !.status = status, !.exc = exc]

----------------------------------------------------------------------------
(* Dashboard and logbook management *)

\* my_logbooks = Logbook.objects.filter(owner=request.user)
my_logbooks(user) == {l \in DOMAIN logbooks : logbooks[l].owner = user}

\* Logbook.objects.filter(Q(access_level='public') | (Q(access_level='shared')
\*   & Q(allowed_groups__in=user_groups))).distinct().exclude(owner=request.user)
shared_logbooks(user) ==
    {l \in DOMAIN logbooks :
        /\ \/ logbooks[l].access_level = "public"
           \/ /\ logbooks[l].access_level = "shared"
              /\ \E g \in logbooks[l].allowed_groups : g \in user_groups(user)
        /\ logbooks[l].owner # user}

\* The page shows my_logbooks(user) and shared_logbooks(user) of the store as it is.
logbook_dashboard(user) ==
    /\ last' = Response("logbook_dashboard", user, 0, 0, "GET", 200, "none")
    /\ UNCHANGED <<db, now>>

\* The keyword arguments of Logbook.objects.create(...) in logbook_create
create_kwargs == {"name", "description", "owner", "book_type", "property_type"}

\* Logbook.objects.create builds Logbook(**kwargs): a keyword that is no field
\* of the model raises TypeError before anything is saved; the fields not given
\* take their defaults (access_level 'private', no allowed groups).
logbook_create(user, method) ==
    LET res(status, exc) == Response("logbook_create", user, 0, 0, method, status, exc)
    IN
    /\ UNCHANGED <<logs, images, comments, now>>
    /\ IF method = "POST"
       THEN IF create_kwargs \subseteq LogbookFields
            THEN /\ logbooks' = With(logbooks, next_id.logbook,
                                     [owner |-> user, access_level |-> "private",
                                      allowed_groups |-> {}])
                 /\ next_id' = [next_id EXCEPT !.logbook = @ + 1]
                 /\ last' = res(302, "none")
            ELSE last' = res(500, "TypeError") /\ UNCHANGED <<logbooks, next_id>>
       ELSE last' = res(200, "none") /\ UNCHANGED <<logbooks, next_id>>

----------------------------------------------------------------------------
(* Log operations *)

\* The listing of log_list: the target date (none in search mode) and the rows
\* that match, as sets; the handler orders them.
SearchMatches(logs_qs, search_query) ==
    {e \in logs_qs : \/ icontains(logs[e].content, search_query)
                     \/ icontains(username(logs[e].user), search_query)}

\* latest_log.created_at.date() if latest_log else timezone.now().date()
LatestDate(logs_qs) ==
    IF logs_qs = {} THEN Date(now)
    ELSE LET latest_log == CHOOSE e \in logs_qs :
                               \A f \in logs_qs : created_at(f) <= created_at(e)
         IN  Date(created_at(latest_log))

\* The target date that falls back to the latest entry for a date that does not parse
target_date_latest_on_error(logs_qs, date_str) ==
    IF date_str.kind \notin {"absent", "empty"} /\ strptime(date_str).exc = "none"
    THEN strptime(date_str).val
    ELSE LatestDate(logs_qs)

target_date(logs_qs, date_str) ==
    IF date_str.kind \notin {"absent", "empty"}
    THEN LET parsed == strptime(date_str)
         IN  IF parsed.exc = "none" THEN parsed.val ELSE Date(now)
    ELSE LatestDate(logs_qs)

\* The next link computed as the base date itself
next_date_of_same_day(base_date) == strftime(base_date)

\* (base_date - timedelta(days=1)).strftime('%Y-%m-%d') and its counterpart
prev_date_of(base_date) == strftime(base_date - 1)
next_date_of(base_date) == strftime(base_date + 1)

\* The context of the page and render(request, 'elog/log_list.html', context);
\* base_date is the target date, or today in search mode.
log_list_render(req, rows, desc, target, base_date, can_write) ==
    IF can_write.exc # "none"
    THEN last' = [req EXCEPT !.status = 500, !.exc = can_write.exc]
    ELSE \E listing \in OrderBy(rows, desc) :
            last' = [req EXCEPT !.status = 200,
                                !.logs = listing,
                                !.current_date = target,
                                !.today_date = {Date(now)},
                                !.prev_date = {prev_date_of(base_date)},
                                !.next_date = {next_date_of(base_date)}]

\* Date mode: logs_qs.filter(created_at__date=target_date).order_by('created_at')
log_list_on(req, logbook, user, logs_qs, target) ==
    log_list_render(req, {e \in logs_qs : Date(created_at(e)) = target}, FALSE,
                    {target}, target, has_write_permission(logbook, user))

\* if search_query: ... order_by('-created_at')  else: the date mode
log_list_of(req, logbook, user, logs_qs, date_str, search_query) ==
    IF search_query # <<>>
    THEN log_list_render(req, SearchMatches(logs_qs, search_query), TRUE,
                         {}, Date(now), has_write_permission(logbook, user))
    ELSE log_list_on(req, logbook, user, logs_qs, target_date(logs_qs, date_str))

\* lb is the result of get_visible_logbook; logs_qs = Log.objects.filter(logbook=logbook)
log_list_in(req, lb, user, date_str, search_query) ==
    IF lb.exc # "none"
    THEN last' = [req EXCEPT !.status = 404, !.exc = lb.exc]
    ELSE log_list_of(req, lb.val, user,
                     {e \in DOMAIN logs : logs[e].logbook = lb.val},
                     date_str, search_query)

log_list(user, logbook_id, date_str, search_query) ==
    /\ UNCHANGED <<db, now>>
    /\ log_list_in([Response("log_list", user, logbook_id, 0, "GET", 0, "none")
                      EXCEPT !.date_str = date_str, !.search = search_query],
                   get_visible_logbook(logbook_id, user),
                   user, date_str, search_query)

\* LogImage.objects.create(log=log, image=img, width=400) for each of n files
AddImages(table, first, n, log) ==
    [i \in (DOMAIN table) \cup (first..(first + n - 1)) |->
        IF i \in DOMAIN table THEN table[i] ELSE [log |-> log, width |-> DEFAULT_WIDTH]]

log_create(user, logbook_id, method, content, n_images) ==
    LET lb == get_visible_logbook(logbook_id, user)
        can_write == has_write_permission(lb.val, user)
        res(status, exc) == Response("log_create", user, logbook_id, 0, method, status, exc)
    IN
    /\ UNCHANGED <<logbooks, comments, now>>
    /\ IF lb.exc # "none"
       THEN last' = res(404, lb.exc) /\ UNCHANGED <<logs, images, next_id>>
       ELSE IF can_write.exc # "none"
       THEN last' = res(500, can_write.exc) /\ UNCHANGED <<logs, images, next_id>>
       ELSE IF ~can_write.val
       THEN last' = res(403, "none") /\ UNCHANGED <<logs, images, next_id>>
       ELSE IF method = "POST"
       THEN /\ logs' = With(logs, next_id.log,
                            [logbook |-> lb.val, user |-> user, content |-> content,
                             created_at |-> now])
            /\ images' = AddImages(images, next_id.image, n_images, next_id.log)
            /\ next_id' = [next_id EXCEPT !.log = @ + 1, !.image = @ + n_images]
            /\ last' = [res(302, "none") EXCEPT !.log_id = next_id.log,
                                                !.date_str = strftime(Date(now))]
       ELSE last' = res(200, "none") /\ UNCHANGED <<logs, images, next_id>>

\* The width of image i after the widths of the form (image id -> text) are applied
WidthAfter(i, widths) ==
    IF i \in DOMAIN widths /\ widths[i] # ""
    THEN LET parsed == int_(widths[i])
         IN  IF parsed.exc = "none" THEN parsed.val ELSE images[i].width
    ELSE images[i].width

\* The selected images deleted by identifier alone
selected_images_of_any_entry(log_id, delete_ids) ==
    {i \in DOMAIN images : i \in delete_ids}

\* LogImage.objects.filter(id__in=delete_ids, log=log_entry)
selected_images(log_id, delete_ids) ==
    {i \in DOMAIN images : i \in delete_ids /\ images[i].log = log_id}

log_edit(user, logbook_id, log_id, method, content, widths, delete_ids, n_images) ==
    LET lb == get_visible_logbook(logbook_id, user)
        log_entry == get_log_or_404(log_id, lb.val)
        res(status, exc) ==
            [Response("log_edit", user, logbook_id, log_id, method, status, exc)
               EXCEPT !.widths = widths, !.delete_ids = delete_ids]
    IN
    /\ UNCHANGED <<logbooks, comments, now>>
    /\ IF lb.exc # "none"
       THEN last' = res(404, lb.exc) /\ UNCHANGED <<logs, images, next_id>>
       ELSE IF log_entry.exc # "none"
       THEN last' = res(404, log_entry.exc) /\ UNCHANGED <<logs, images, next_id>>
       ELSE IF permission_denied(log_id, lb.val, user)
       THEN last' = res(403, "none") /\ UNCHANGED <<logs, images, next_id>>
       ELSE IF method = "POST"
       THEN LET resized == [i \in DOMAIN images |->
                               IF images[i].log = log_id
                               THEN [images[i] EXCEPT !.width = WidthAfter(i, widths)]
                               ELSE images[i]]
                deleted == selected_images(log_id, delete_ids)
                kept == Without(resized, deleted)
            IN  /\ logs' = [logs EXCEPT ![log_id].content = content]
                /\ images' = AddImages(kept, next_id.image, n_images, log_id)
                /\ next_id' = [next_id EXCEPT !.image = @ + n_images]
                /\ last' = [res(302, "none") EXCEPT
                               !.date_str = strftime(Date(created_at(log_id)))]
       ELSE last' = res(200, "none") /\ UNCHANGED <<logs, images, next_id>>

log_delete(user, logbook_id, log_id, method) ==
    LET lb == get_visible_logbook(logbook_id, user)
        log == get_log_or_404(log_id, lb.val)
        res(status, exc) == Response("log_delete", user, logbook_id, log_id, method, status, exc)
    IN
    /\ UNCHANGED <<logbooks, next_id, now>>
    /\ IF lb.exc # "none"
       THEN last' = res(404, lb.exc) /\ UNCHANGED <<logs, images, comments>>
       ELSE IF log.exc # "none"
       THEN last' = res(404, log.exc) /\ UNCHANGED <<logs, images, comments>>
       ELSE IF permission_denied(log_id, lb.val, user)
       THEN last' = res(403, "none") /\ UNCHANGED <<logs, images, comments>>
       ELSE IF method = "POST"
       THEN /\ logs' = Without(logs, {log_id})
            /\ images' = Without(images, ImagesOf({log_id}))
            /\ comments' = Without(comments, CommentsOf({log_id}))
            /\ last' = [res(302, "none") EXCEPT
                           !.date_str = strftime(Date(created_at(log_id)))]
       ELSE last' = res(302, "none") /\ UNCHANGED <<logs, images, comments>>

----------------------------------------------------------------------------
(* Interaction and export *)

log_comment(user, logbook_id, log_id, method, content) ==
    LET lb == get_visible_logbook(logbook_id, user)
        log_entry == get_log_or_404(log_id, lb.val)
        res(status, exc) == Response("log_comment", user, logbook_id, log_id, method, status, exc)
    IN
    /\ UNCHANGED <<logbooks, logs, images, now>>
    /\ IF lb.exc # "none"
       THEN last' = res(404, lb.exc) /\ UNCHANGED <<comments, next_id>>
       ELSE IF log_entry.exc # "none"
       THEN last' = res(404, log_entry.exc) /\ UNCHANGED <<comments, next_id>>
       ELSE IF method = "POST"
       THEN /\ IF content # <<>>
               THEN /\ comments' = With(comments, next_id.comment,
                                        [log |-> log_id, user |-> user, content |-> content])
                    /\ next_id' = [next_id EXCEPT !.comment = @ + 1]
               ELSE UNCHANGED <<comments, next_id>>
            /\ last' = [res(302, "none") EXCEPT
                           !.date_str = strftime(Date(created_at(log_id)))]
       ELSE last' = res(200, "none") /\ UNCHANGED <<comments, next_id>>

\* logs = Log.objects.filter(logbook=logbook, created_at__date=current_date)
\*            .order_by('created_at'), rendered to the PDF
export_logs_pdf_render(req, rows, current_date) ==
    \E listing \in OrderBy(rows, FALSE) :
        last' = [req EXCEPT !.status = 200,
                            !.logs = listing,
                            !.current_date = current_date]

\* current_date is the result of parse_date (or today), logbook that of
\* get_object_or_404(Logbook, id=logbook_id)
export_logs_pdf_of(req, current_date, logbook) ==
    IF current_date.exc # "none"
    THEN last' = [req EXCEPT !.status = 500, !.exc = current_date.exc]
    ELSE IF logbook.exc # "none"
    THEN last' = [req EXCEPT !.status = 404, !.exc = logbook.exc]
    ELSE export_logs_pdf_render(
             req,
             {e \in DOMAIN logs : /\ logs[e].logbook = logbook.val
                                  /\ Date(created_at(e)) \in current_date.val},
             current_date.val)

export_logs_pdf(user, logbook_id, date_str) ==
    /\ UNCHANGED <<db, now>>
    /\ export_logs_pdf_of(
           [Response("export_logs_pdf", user, logbook_id, 0, "GET", 0, "none")
              EXCEPT !.date_str = date_str],
           IF date_str.kind \notin {"absent", "empty"}
           THEN parse_date(date_str)
           ELSE Ok({Date(now)}),
           get_object_or_404({l \in DOMAIN logbooks : l = logbook_id}))

----------------------------------------------------------------------------
(* The admin site's Logbook pages (LogbookAdmin): add, change, delete *)

AdminAddLogbook(owner, access_level, allowed_groups) ==
    /\ logbooks' = With(logbooks, next_id.logbook,
                        [owner |-> owner, access_level |-> access_level,
                         allowed_groups |-> allowed_groups])
    /\ next_id' = [next_id EXCEPT !.logbook = @ + 1]
    /\ last' = Idle
    /\ UNCHANGED <<logs, images, comments, now>>

AdminChangeLogbook(l, owner, access_level, allowed_groups) ==
    /\ l \in DOMAIN logbooks
    /\ logbooks' = [logbooks EXCEPT ![l] = [owner |-> owner, access_level |-> access_level,
                                            allowed_groups |-> allowed_groups]]
    /\ logbooks' # logbooks
    /\ last' = Idle
    /\ UNCHANGED <<logs, images, comments, next_id, now>>

AdminDeleteLogbook(l) ==
    /\ l \in DOMAIN logbooks
    /\ logbooks' = Without(logbooks, {l})
    /\ logs' = Without(logs, EntriesOf({l}))
    /\ images' = Without(images, ImagesOf(EntriesOf({l})))
    /\ comments' = Without(comments, CommentsOf(EntriesOf({l})))
    /\ last' = Idle
    /\ UNCHANGED <<next_id, now>>

\* Time passes.
Tick ==
    /\ now' = now + 1
    /\ last' = Idle
    /\ UNCHANGED db

----------------------------------------------------------------------------
(* The specifications.  The store starts empty; requests name the rows that  *)
(* exist or existed and one identifier that was never used.                 *)

LogbookIds == 1..next_id.logbook
LogIds == 1..next_id.log
ImageIds == 1..next_id.image
Methods == {"GET", "POST"}

Init ==
    /\ logbooks = <<>>
    /\ logs = <<>>
    /\ images = <<>>
    /\ comments = <<>>
    /\ next_id = [logbook |-> 1, log |-> 1, image |-> 1, comment |-> 1]
    /\ now = TicksPerDay
    /\ last = Idle

\* No more rows are ever created than the quota q allows.
Within(q) ==
    /\ next_id'.logbook <= q.logbooks + 1
    /\ next_id'.log <= q.logs + 1
    /\ next_id'.image <= q.images + 1
    /\ next_id'.comment <= q.comments + 1

----------------------------------------------------------------------------
(* Spec: every handler and the admin site, with every owner, access level  *)
(* and set of allowed groups a logbook can have.                            *)

MaxLogbooks == 1
MaxLogs == 1
MaxImages == 0
MaxComments == 0

Quota == [logbooks |-> MaxLogbooks, logs |-> MaxLogs, images |-> MaxImages,
          comments |-> MaxComments]

Next ==
    \/ \E o \in Users, a \in ACCESS_CHOICES, g \in SUBSET Groups :
          AdminAddLogbook(o, a, g) /\ Within(Quota)
    \/ \E l \in LogbookIds, o \in Users, a \in ACCESS_CHOICES, g \in SUBSET Groups :
          AdminChangeLogbook(l, o, a, g)
    \/ \E l \in LogbookIds : AdminDeleteLogbook(l)
    \/ \E u \in Users, l \in LogbookIds : log_list(u, l, Absent, <<>>)
    \/ \E u \in Users, l \in LogbookIds, m \in Methods, n \in 0..MaxImages :
          log_create(u, l, m, <<"x">>, n) /\ Within(Quota)
    \/ \E u \in Users, l \in LogbookIds, e \in LogIds, m \in Methods :
          log_edit(u, l, e, m, <<"X", "y">>, <<>>, {}, 0)
    \/ \E u \in Users, l \in LogbookIds, e \in LogIds, m \in Methods :
          log_delete(u, l, e, m)
    \/ \E u \in Users, l \in LogbookIds, e \in LogIds, m \in Methods, c \in {<<>>, <<"x">>} :
          log_comment(u, l, e, m, c) /\ Within(Quota)
    \/ \E u \in Users, l \in LogbookIds : export_logs_pdf(u, l, Absent)

Spec == Init /\ [][Next]_vars

----------------------------------------------------------------------------
(* SpecResolver: the admin site gives a logbook any owner, access level and *)
(* allowed groups, and users ask for the listing of a logbook.              *)

ResolverLogbooks == 1

NextResolver ==
    \/ \E o \in Users, a \in ACCESS_CHOICES, g \in SUBSET Groups :
          AdminAddLogbook(o, a, g) /\ next_id'.logbook <= ResolverLogbooks + 1
    \/ \E l \in LogbookIds, o \in Users, a \in ACCESS_CHOICES, g \in SUBSET Groups :
          AdminChangeLogbook(l, o, a, g)
    \/ \E l \in LogbookIds : AdminDeleteLogbook(l)
    \/ \E u \in Users, l \in LogbookIds : log_list(u, l, Absent, <<>>)

SpecResolver == Init /\ [][NextResolver]_vars

----------------------------------------------------------------------------
(* SpecEntries: entries with images and comments in a public logbook whose  *)
(* owner the admin site changes, so that an entry's author need not be the  *)
(* logbook's owner.                                                         *)

EntriesLogbooks == 1
EntriesLogs == 2
EntriesImages == 2
EntriesComments == 1

EntriesQuota == [logbooks |-> EntriesLogbooks, logs |-> EntriesLogs,
                 images |-> EntriesImages, comments |-> EntriesComments]

NextEntries ==
    \/ AdminAddLogbook("u1", "public", {}) /\ Within(EntriesQuota)
    \/ \E l \in DOMAIN logbooks, o \in {"u1", "u2"} : AdminChangeLogbook(l, o, "public", {})
    \/ \E l \in DOMAIN logbooks : AdminDeleteLogbook(l)
    \/ \E u \in Users, l \in 1..EntriesLogbooks, n \in 0..1 :
          log_create(u, l, "POST", <<"x">>, n) /\ Within(EntriesQuota)
    \/ \E u \in Users, l \in 1..EntriesLogbooks, e \in 1..EntriesLogs :
          log_edit(u, l, e, "POST", <<"X", "y">>, <<>>, {}, 0)
    \/ \E u \in Users, l \in 1..EntriesLogbooks, e \in 1..EntriesLogs, m \in Methods :
          log_delete(u, l, e, m)
    \/ \E l \in 1..EntriesLogbooks, e \in 1..EntriesLogs :
          log_comment("u3", l, e, "POST", <<"x">>) /\ Within(EntriesQuota)

SpecEntries == Init /\ [][NextEntries]_vars

----------------------------------------------------------------------------
(* SpecImages: the owner of a logbook creates entries with images and edits *)
(* them, setting widths, deleting selected images and adding new ones.      *)

ImagesLogs == 2
ImagesImages == 3

ImagesQuota == [logbooks |-> 1, logs |-> ImagesLogs, images |-> ImagesImages,
                comments |-> 0]

\* The width fields of an edit form: none, or one width_<id> field
WidthForms ==
    {<<>>} \cup {[i \in {j} |-> w] : j \in 1..(ImagesImages - 1), w \in {"200", "abc"}}

\* The delete_images fields of an edit form: at most two identifiers
DeleteForms == {S \in SUBSET (1..ImagesImages) : Cardinality(S) <= 2}

NextImages ==
    \/ AdminAddLogbook("u1", "public", {}) /\ Within(ImagesQuota)
    \/ \E n \in 0..2 : log_create("u1", 1, "POST", <<"x">>, n) /\ Within(ImagesQuota)
    \/ \E e \in 1..ImagesLogs, w \in WidthForms, del \in DeleteForms, n \in 0..1 :
          log_edit("u1", 1, e, "POST", <<"x">>, w, del, n) /\ Within(ImagesQuota)

SpecImages == Init /\ [][NextImages]_vars

----------------------------------------------------------------------------
(* SpecNav: time passes while the owner of public logbooks adds entries and *)
(* asks for listings and exports with every kind of date text: none, empty, *)
(* no date at all, and the days up to the day after the last day reached.   *)

NavLogbooks == 1
NavLogs == 2
NavDays == 2

NavQuota == [logbooks |-> NavLogbooks, logs |-> NavLogs, images |-> 0, comments |-> 0]

DateStrs == {Absent, EmptyStr, Garbage, NoSuchDay} \cup {strftime(d) : d \in 1..(NavDays + 1)}

NextNav ==
    \/ AdminAddLogbook("u1", "public", {}) /\ Within(NavQuota)
    \/ Tick /\ Date(now') <= NavDays
    \/ \E l \in 1..NavLogbooks : log_create("u1", l, "POST", <<"x">>, 0) /\ Within(NavQuota)
    \/ \E l \in 1..NavLogbooks, d \in DateStrs : log_list("u1", l, d, <<>>)
    \/ \E l \in 1..NavLogbooks : log_list("u1", l, Absent, <<"x">>)
    \/ \E l \in 1..NavLogbooks, d \in DateStrs : export_logs_pdf("u1", l, d)

SpecNav == Init /\ [][NextNav]_vars

----------------------------------------------------------------------------
(* SpecComments: u1 owns logbooks of every access level (the shared ones   *)
(* open to g2, so that u2 may view them and u3 may not) and writes entries; *)
(* every user asks to comment on every entry under every logbook, with text *)
(* and without. The content <<>> is the content that is not truthy: the     *)
(* field left empty, or missing from the POST.                              *)

CommentsLogbooks == 2
CommentsLogs == 2
CommentsComments == 1

CommentsQuota == [logbooks |-> CommentsLogbooks, logs |-> CommentsLogs,
                  images |-> 0, comments |-> CommentsComments]

CommentTexts == {<<>>, <<"x">>}

NextComments ==
    \/ \E a \in ACCESS_CHOICES : AdminAddLogbook("u1", a, {"g2"}) /\ Within(CommentsQuota)
    \/ \E l \in 1..CommentsLogbooks :
          log_create("u1", l, "POST", <<"x">>, 0) /\ Within(CommentsQuota)
    \/ \E u \in Users, l \in 1..CommentsLogbooks, e \in 1..CommentsLogs,
          m \in Methods, c \in CommentTexts :
          log_comment(u, l, e, m, c) /\ Within(CommentsQuota)

SpecComments == Init /\ [][NextComments]_vars

----------------------------------------------------------------------------
(* SpecDashboard: logbooks of every owner and access level come from the    *)
(* admin site; every user asks for the dashboard, for the creation form and *)
(* its submission, and for the listing of every logbook.                    *)

DashboardLogbooks == 2

DashboardQuota == [logbooks |-> DashboardLogbooks, logs |-> 0, images |-> 0,
                   comments |-> 0]

NextDashboard ==
    \/ \E o \in Users, a \in ACCESS_CHOICES, g \in {{}, {"g2"}} :
          AdminAddLogbook(o, a, g) /\ Within(DashboardQuota)
    \/ \E l \in DOMAIN logbooks : AdminDeleteLogbook(l)
    \/ \E u \in Users : logbook_dashboard(u)
    \/ \E u \in Users, m \in Methods : logbook_create(u, m) /\ Within(DashboardQuota)
    \/ \E u \in Users, l \in 1..DashboardLogbooks : log_list(u, l, Absent, <<>>)

SpecDashboard == Init /\ [][NextDashboard]_vars

----------------------------------------------------------------------------
(* The rules of the specification, stated on the store *)

\* May the user view the logbook: owner, public, or shared with a group of the user.
CanView(user, l) ==
    /\ l \in DOMAIN logbooks
    /\ \/ logbooks[l].owner = user
       \/ logbooks[l].access_level = "public"
       \/ /\ logbooks[l].access_level = "shared"
          /\ (user_groups(user) \cap logbooks[l].allowed_groups) # {}

\* May the user write: owner, or the logbook is shared.
CanWrite(user, l) ==
    \/ logbooks[l].owner = user
    \/ logbooks[l].access_level = "shared"

ResolverHandlers == {"log_list", "log_create", "log_edit", "log_delete", "log_comment"}
LogbookHandlers == ResolverHandlers \cup {"export_logs_pdf"}

----------------------------------------------------------------------------
(* C1: the Access Resolver returns logbook L to user U exactly when U owns  *)
(* L, or L is public, or L is shared and a group of U is among L's allowed   *)
(* groups; for every other identifier and user it raises Http404 (also for   *)
(* an identifier that names no logbook, and for another user's private       *)
(* logbook whose allowed groups overlap U's).  check_logbook_access decides  *)
(* the same, and log_list answers 404 exactly in those cases.                *)
C1_AccessResolver ==
    /\ \A l \in LogbookIds, u \in Users :
          get_visible_logbook(l, u) = IF CanView(u, l) THEN Ok(l) ELSE Raise("Http404")
    /\ \A l \in DOMAIN logbooks, u \in Users :
          check_logbook_access(u, l) <=> CanView(u, l)
    /\ last.handler = "log_list" =>
          (last.status = 404 <=> ~CanView(last.user, last.logbook_id))

\* log_list answered 404 for another user's private logbook whose allowed
\* groups overlap the requester's.
C1_Witness ==
    /\ last.handler = "log_list"
    /\ last.status = 404
    /\ last.logbook_id \in DOMAIN logbooks
    /\ logbooks[last.logbook_id].access_level = "private"
    /\ logbooks[last.logbook_id].owner # last.user
    /\ (user_groups(last.user) \cap logbooks[last.logbook_id].allowed_groups) # {}

(* C2: for every logbook L the user U can view, has_write_permission        *)
(* returns, without raising, true exactly when U owns L or L is shared.     *)
C2_WritePermission ==
    \A l \in DOMAIN logbooks, u \in Users :
        CanView(u, l) =>
            /\ has_write_permission(l, u).exc = "none"
            /\ has_write_permission(l, u).val <=> CanWrite(u, l)

(* C3: a log_create request adds an entry only for a user who can view the  *)
(* logbook and may write to it, with that user as the author; a viewer      *)
(* without write permission is answered 403 and no entry or image changes.  *)
C3_CreateGate ==
    [][last'.handler = "log_create" =>
        LET u == last'.user
            l == last'.logbook_id
        IN  /\ logs' # logs =>
                  /\ CanView(u, l) /\ CanWrite(u, l)
                  /\ \E e \in DOMAIN logs' \ DOMAIN logs :
                        /\ DOMAIN logs' = DOMAIN logs \cup {e}
                        /\ logs'[e].user = u /\ logs'[e].logbook = l
            /\ (CanView(u, l) /\ ~CanWrite(u, l)) =>
                  /\ last'.status = 403
                  /\ logs' = logs /\ images' = images]_vars

(* C5: every handler that takes a logbook identifier answers a user who may *)
(* not view the named logbook with the 404 it gives for an identifier that  *)
(* names no logbook: no listing, and nothing stored changes.                *)
C5_NoExistenceLeak ==
    [][(last'.handler \in LogbookHandlers /\ ~CanView(last'.user, last'.logbook_id)) =>
          /\ last'.status = 404
          /\ last'.exc = "Http404"
          /\ last'.logs = <<>>
          /\ db' = db]_vars

(* C4: when the entry E named in a log_edit or log_delete request belongs   *)
(* to the named logbook L and the user U can view L, the request changes    *)
(* something only if U is E's author or L's owner; any other viewer is      *)
(* answered 403 and no entry, image or comment changes.  A log_delete that  *)
(* is not a POST removes no entry.                                          *)
C4_EditDeleteAuthorization ==
    [][last'.handler \in {"log_edit", "log_delete"} =>
        LET u == last'.user
            l == last'.logbook_id
            e == last'.log_id
        IN  (e \in DOMAIN logs /\ logs[e].logbook = l /\ CanView(u, l)) =>
              /\ (logs[e].user # u /\ logbooks[l].owner # u) =>
                    /\ last'.status = 403
                    /\ logs' = logs /\ images' = images /\ comments' = comments
              /\ (last'.handler = "log_delete" /\ last'.method # "POST") =>
                    logs' = logs /\ images' = images /\ comments' = comments]_vars

\* A viewer who is neither the author nor the owner asked to delete an entry
\* that has an image and a comment, and was answered 403.
C4_Witness ==
    /\ last.handler = "log_delete" /\ last.method = "POST" /\ last.status = 403
    /\ last.log_id \in DOMAIN logs
    /\ CanView(last.user, last.logbook_id)
    /\ logs[last.log_id].user # last.user
    /\ logbooks[last.logbook_id].owner # last.user
    /\ logs[last.log_id].user # logbooks[last.logbook_id].owner
    /\ ImagesOf({last.log_id}) # {} /\ CommentsOf({last.log_id}) # {}

NoOrphans ==
    /\ \A i \in DOMAIN images : images[i].log \in DOMAIN logs
    /\ \A c \in DOMAIN comments : comments[c].log \in DOMAIN logs
    /\ \A e \in DOMAIN logs : logs[e].logbook \in DOMAIN logbooks

(* C9: after every operation each image and each comment belongs to an      *)
(* entry that exists and each entry to a logbook that exists; a log_delete  *)
(* that removes entry E leaves no image or comment of E, and leaves every   *)
(* other entry, image and comment as it was.                                *)
C9_CascadeDelete ==
    [][/\ NoOrphans'
       /\ (last'.handler = "log_delete" /\ last'.log_id \in DOMAIN logs \ DOMAIN logs') =>
            LET e == last'.log_id
            IN  /\ \A i \in DOMAIN images' : images'[i].log # e
                /\ \A c \in DOMAIN comments' : comments'[c].log # e
                /\ logs' = Without(logs, {e})
                /\ images' = Without(images, {i \in DOMAIN images : images[i].log = e})
                /\ comments' = Without(comments, {c \in DOMAIN comments : comments[c].log = e})]_vars

\* An entry that had an image was deleted, and another entry's image remains.
C9_Witness ==
    /\ last.handler = "log_delete" /\ last.method = "POST" /\ last.status = 302
    /\ last.log_id \notin DOMAIN logs
    /\ DOMAIN images # 1..(next_id.image - 1)
    /\ DOMAIN comments # 1..(next_id.comment - 1)
    /\ images # <<>>

(* C10: an edit of entry E that is carried out removes exactly the images   *)
(* that belong to E and whose identifier is among delete_images; an image   *)
(* that stays keeps its entry, and its width changes only if it belongs to  *)
(* E and the form has a width field for it that is a number; images of      *)
(* other entries are never removed, whatever delete_images names.           *)
C10_SelectiveImageDeletion ==
    [][(last'.handler = "log_edit" /\ last'.method = "POST" /\ last'.status = 302) =>
        LET e == last'.log_id
            S == last'.delete_ids
            W == last'.widths
        IN  /\ \A i \in DOMAIN images :
                  i \notin DOMAIN images' <=> (i \in S /\ images[i].log = e)
            /\ \A i \in DOMAIN images \cap DOMAIN images' :
                  /\ images'[i].log = images[i].log
                  /\ images'[i].width # images[i].width =>
                        /\ images[i].log = e
                        /\ i \in DOMAIN W
                        /\ W[i] = "200" /\ images'[i].width = 200]_vars

\* An edit named an image of the entry and an image of another entry for
\* deletion: the first is gone, the other and a second image of the entry remain.
C10_Witness ==
    /\ last.handler = "log_edit" /\ last.method = "POST" /\ last.status = 302
    /\ \E i \in last.delete_ids : i \in DOMAIN images /\ images[i].log # last.log_id
    /\ \E i \in last.delete_ids : i \notin DOMAIN images /\ i < next_id.image
    /\ \E i \in DOMAIN images : images[i].log = last.log_id /\ i \notin last.delete_ids

----------------------------------------------------------------------------
(* Dates of the listing claims *)

EntriesIn(l) == {e \in DOMAIN logs : logs[e].logbook = l}
EntryDates(l) == {Date(created_at(e)) : e \in EntriesIn(l)}
Latest(D) == CHOOSE d \in D : \A x \in D : x <= d
Earliest(D) == CHOOSE d \in D : \A x \in D : d <= x

\* The calendar dates a date text denotes: the date that is written so, if any.
DaysWritten(s) == {d \in (0 - 31)..60 : strftime(d) = s}
Present(s) == s.kind \notin {"absent", "empty"}

\* The listing of the last response is the set E in ascending order of creation.
ListsAscending(E) ==
    /\ {last.logs[i] : i \in DOMAIN last.logs} = E
    /\ Len(last.logs) = Cardinality(E)
    /\ \A i, j \in DOMAIN last.logs :
          i < j => created_at(last.logs[i]) <= created_at(last.logs[j])

DateModePage == last.handler = "log_list" /\ last.status = 200 /\ last.search = <<>>

C8_MalformedDateFallback ==
    (/\ last.handler \in {"log_list", "export_logs_pdf"}
     /\ last.search = <<>>
     /\ Present(last.date_str) /\ DaysWritten(last.date_str) = {}
     /\ last.logbook_id \in DOMAIN logbooks
     /\ logbooks[last.logbook_id].owner = last.user) =>
        /\ last.status = 200
        /\ last.current_date = {Date(now)}
        /\ ListsAscending({e \in EntriesIn(last.logbook_id) :
                              Date(created_at(e)) = Date(now)})

----------------------------------------------------------------------------
(* C11: a POST to log_comment by user U for entry E under logbook L: if U   *)
(* passes the Access Resolver for L (owner or not, with or without write    *)
(* permission) and E is an entry of L, the answer is the redirect to E's    *)
(* day, and content that is not empty adds exactly one comment, on E, by U, *)
(* with that content, while empty or missing content changes nothing in     *)
(* the store; if U may not view L or E is not an entry of L, the answer is  *)
(* 404 and the store is unchanged.                                          *)
C11_CommentMutation ==
    [][(last'.handler = "log_comment" /\ last'.method = "POST") =>
        LET u == last'.user
            l == last'.logbook_id
            e == last'.log_id
        IN  \A c \in CommentTexts :
                log_comment(u, l, e, "POST", c) =>
                    IF CanView(u, l) /\ e \in EntriesIn(l)
                    THEN /\ last'.status = 302
                         /\ last'.date_str = strftime(Date(created_at(e)))
                         /\ <<logbooks, logs, images>>' = <<logbooks, logs, images>>
                         /\ IF c = <<>> THEN db' = db
                            ELSE \E k \in DOMAIN comments' \ DOMAIN comments :
                                    /\ DOMAIN comments' = DOMAIN comments \cup {k}
                                    /\ \A j \in DOMAIN comments :
                                          comments'[j] = comments[j]
                                    /\ comments'[k] =
                                          [log |-> e, user |-> u, content |-> c]
                    ELSE last'.status = 404 /\ db' = db]_vars

\* u3, in no group and not the owner, has commented on an entry of a public
\* logbook: the comment is stored under u3's name.
C11_Witness ==
    /\ last.handler = "log_comment" /\ last.method = "POST" /\ last.status = 302
    /\ last.user = "u3"
    /\ logbooks[last.logbook_id].owner # "u3"
    /\ logbooks[last.logbook_id].access_level = "public"
    /\ \E k \in DOMAIN comments :
          comments[k] = [log |-> last.log_id, user |-> "u3", content |-> <<"x">>]

----------------------------------------------------------------------------
(* C12: a POST to logbook_create by user U is answered with the redirect    *)
(* and adds exactly one logbook to the store, leaving the others as they    *)
(* were; the new logbook's owner is U, the Access Resolver returns it to U, *)
(* and of U's dashboard lists it is in my_logbooks and not in               *)
(* shared_logbooks.                                                         *)
C12_LogbookCreation ==
    [][\A U \in Users :
        (last'.handler = "logbook_create" /\ last'.method = "POST" /\ last'.user = U) =>
            /\ last'.status = 302
            /\ \E l \in 1..DashboardLogbooks :
                  /\ l \notin DOMAIN logbooks
                  /\ DOMAIN logbooks' = DOMAIN logbooks \cup {l}
                  /\ \A k \in DOMAIN logbooks : logbooks'[k] = logbooks[k]
                  /\ logbooks'[l].owner = U
                  /\ logbooks'[l].access_level \in ACCESS_CHOICES
                  /\ logbooks'[l].allowed_groups \subseteq Groups
                  /\ (get_visible_logbook(l, U) = Ok(l))'
                  /\ (l \in my_logbooks(U))'
                  /\ (l \notin shared_logbooks(U))']_vars

====
